---- MODULE Spec2Model ----
(***************************************************************************)
(* Model of src/gui/scripts/dummy-prompt.py: a script that prints          *)
(* "Working...", sleeps one second, prints a yes/no prompt and reads one   *)
(* line from standard input, tolerating end-of-file.                       *)
(*                                                                         *)
(* The process runs against an environment that owns the clock and the far *)
(* ends of the standard streams: the writer of stdin may send bytes and    *)
(* close, and the reader of stdout may go away.                            *)
(***************************************************************************)
EXTENDS Integers, Sequences, FiniteSets, TLC

\* ------------------------------------------------------------- bounds
\* Resolution of the model clock.
TicksPerSecond == 2
\* The clock runs freely up to MaxClock (and for as long as a sleep needs).
MaxClock == 2
\* Number of bytes the writer of stdin sends at most.
MaxStdin == 2

\* ---------------------------------------------------- program constants
\* line 4: print("Working...", flush=True); end defaults to a newline
WorkingText == "Working..."
WorkingEnd == "\n"
WorkingFlushOmitted == FALSE
WorkingFlush == TRUE
\* line 5: time.sleep(1)
SleepSeconds == 1
\* line 6: print("Do you want to proceed? [y/n] ", end="", flush=True)
PromptText == "Do you want to proceed? [y/n] "
PromptEndDefault == "\n"
PromptEnd == ""
PromptFlush == TRUE
\* line 9: sys.version_info[0].  Line 4 passes keyword arguments to print,
\* which is a syntax error for a Python 2 compiler, so the script only ever
\* runs under major version 3.
version_major == 3

\* ------------------------------------------------------ the environment
BAD == "0xFF"                       \* a byte that is not valid UTF-8
SURROGATE == "U+DCFF"               \* what surrogateescape decodes it to
Bytes == {"y", "n", "\n", BAD}
ErrorHandlers == {"strict", "surrogateescape"}
\* How the interpreter set up sys.stdout:
\*   buffered       the default: text collects in a buffer until a flush
\*   write_through  python -u / PYTHONUNBUFFERED from CPython 3.7 on: every
\*                  write of text goes out at once
\*   line_raw       python -u / PYTHONUNBUFFERED on CPython 3.6: text is
\*                  held until a newline or a flush and then written with
\*                  nothing behind it to keep it when the write fails
StdoutModes == {"buffered", "write_through", "line_raw"}

NoExc == "none"
NotExited == <<>>                   \* exit_code while the process runs

VARIABLES
    pc,             \* the statement the process is at (source line)
    now,            \* the monotonic clock, in ticks
    deadline,       \* when the running sleep may return
    stdout_buf,     \* sys.stdout's buffer: text written, not yet flushed
    stdout_fd,      \* what the reader of stdout has received
    stdout_ok,      \* the reader of stdout is still there
    stdout_mode,    \* how sys.stdout buffers (see StdoutModes)
    out_log,        \* the writes that reached stdout: <<[t, data, at]>>
    stderr_fd,      \* what was written to stderr
    stdin_pipe,     \* bytes sent to stdin and not yet read
    stdin_closed,   \* the writer of stdin has closed its end
    stdin_errors,   \* sys.stdin.errors
    stdin_sent,     \* number of bytes sent so far
    stdin_text,     \* characters sys.stdin has decoded and not yet returned
    answer,         \* history: the line the input call returned (discarded)
    print_calls,    \* calls of print
    sleep_calls,    \* calls of time.sleep
    input_calls,    \* calls of input / raw_input
    reader,         \* the function lines 9-12 chose to read with
    reads,          \* reads of the stdin stream made by input
    input_result,   \* how the input call ended: none, line, eof, error
    exc,            \* the exception that propagates out of the script
    exc_at,         \* the statement that raised it
    exit_code       \* <<status>> once the process has exited, <<>> before

vars == <<pc, now, deadline, stdout_buf, stdout_fd, stdout_ok, stdout_mode, out_log,
          stderr_fd, stdin_pipe, stdin_closed, stdin_errors, stdin_sent,
          stdin_text, answer, print_calls, sleep_calls, input_calls, reader,
          reads, input_result, exc, exc_at, exit_code>>

envVars == <<stdout_ok, stdin_pipe, stdin_closed, stdin_sent>>
outVars == <<stdout_buf, stdout_fd, out_log>>
inVars == <<stdin_text, answer, reader, reads, input_result>>
counts == <<print_calls, sleep_calls, input_calls>>

Range(s) == {s[i] : i \in 1..Len(s)}

\* ------------------------------------------------------- control flow
\* Variant: the input call placed before the prompt.
NextStatementReadFirst(stage) ==
    CASE stage = "L4" -> "L5"
      [] stage = "L5" -> "L8"
      [] stage = "L8" -> "L6"
      [] stage = "L6" -> "end"

\* Variant: the sleep left out.
NextStatementNoSleep(stage) ==
    CASE stage = "L4" -> "L6"
      [] stage = "L5" -> "L6"
      [] stage = "L6" -> "L8"
      [] stage = "L8" -> "end"

\* The statements of the script in source order (lines 4, 5, 6, 8-12, end).
NextStatement(stage) ==
    CASE stage = "L4" -> "L5"
      [] stage = "L5" -> "L6"
      [] stage = "L6" -> "L8"
      [] stage = "L8" -> "end"

\* The try block of lines 8-12 covers the input call: "L8" is the process
\* about to make it, "L12" the process inside it.
InTry(stage) == stage \in {"L8", "L12"}

\* Variant: a handler for another exception type.
ExceptClauseOther(e) == e = "KeyboardInterrupt"

\* Variant: a bare except.
ExceptClauseAll(e) == TRUE

\* line 13: except EOFError
ExceptClause(e) == e = "EOFError"

\* Variant: the handler asks again instead of passing.
RaiseRetry(stage, e) == IF InTry(stage) /\ ExceptClause(e) THEN "L6" ELSE "raised"

\* Where an exception raised at `stage` takes control: into the handler of
\* line 13-14 (pass, then the end of the script) or out of the script.
Raise(stage, e) == IF InTry(stage) /\ ExceptClause(e) THEN "end" ELSE "raised"

\* An exception e raised by the statement at `stage`: caught by the handler,
\* or recorded as the exception that leaves the script.
RaiseStep(stage, e) ==
    LET to == Raise(stage, e) IN
    /\ pc' = to
    /\ IF to = "raised"
         THEN exc' = e /\ exc_at' = stage
         ELSE UNCHANGED <<exc, exc_at>>

\* Variant: the prompt is repeated until the answer is "y".
AfterInputReprompt(line) == IF line = <<"y">> THEN NextStatement("L8") ELSE "L6"

\* The value of input() is an expression statement: nothing uses it.
AfterInput(line) == NextStatement("L8")

\* --------------------------------------------------------------- print
\* print(text, end=end, flush=flush) on a buffered stdout with buffer `buf`,
\* whose reader has received `fd` and is present iff `ok`: text and end go
\* to the buffer, and the flush sends the buffer in one write.  A failed
\* flush leaves the text in the buffer.
print(buf, fd, ok, text, end, flush) ==
    LET written == buf \o text \o end IN
    IF ~flush THEN [buf |-> written, fd |-> fd, sent |-> "", raised |-> NoExc]
    ELSE IF written = "" THEN [buf |-> "", fd |-> fd, sent |-> "", raised |-> NoExc]
    ELSE IF ok THEN [buf |-> "", fd |-> fd \o written, sent |-> written, raised |-> NoExc]
    ELSE [buf |-> written, fd |-> fd, sent |-> "", raised |-> "BrokenPipeError"]

\* print(text, end=end, flush=flush) on a line_raw stdout: text and end are
\* held together and sent in one write when a newline was written (the
\* texts of the script hold none, so: when end is the newline) or on the
\* flush.  A failed write keeps nothing.
print_line_raw(buf, fd, ok, text, end, flush) ==
    LET written == buf \o text \o end IN
    IF ~(flush \/ end = "\n") THEN [buf |-> written, fd |-> fd, sent |-> "", raised |-> NoExc]
    ELSE IF written = "" THEN [buf |-> "", fd |-> fd, sent |-> "", raised |-> NoExc]
    ELSE IF ok THEN [buf |-> "", fd |-> fd \o written, sent |-> written, raised |-> NoExc]
    ELSE [buf |-> "", fd |-> fd, sent |-> "", raised |-> "BrokenPipeError"]

\* sys.stdout.write(data) on a write_through stdout: the data goes to the
\* reader at once, in a write of its own; a failed write keeps nothing.
write(fd, ok, data) ==
    IF data = "" THEN [fd |-> fd, sent |-> "", raised |-> NoExc]
    ELSE IF ok THEN [fd |-> fd \o data, sent |-> data, raised |-> NoExc]
    ELSE [fd |-> fd, sent |-> "", raised |-> "BrokenPipeError"]

Logged(log, data, stage) ==
    IF data = "" THEN log ELSE Append(log, [t |-> now, data |-> data, at |-> stage])

\* The process inside the print of `stage`, its text written, its end not yet.
EndPending(stage) == stage \o "e"

\* A print statement.  On a buffered or line_raw stdout it is one step.  On
\* a write_through stdout print writes the text, then the end, each reaching
\* the reader on its own: this step is the first write, PrintEnd the second.
PrintStep(stage, text, end, flush) ==
    /\ print_calls' = print_calls + 1
    /\ IF stdout_mode = "write_through"
         THEN LET r == write(stdout_fd, stdout_ok, text) IN
              /\ stdout_fd' = r.fd
              /\ out_log' = Logged(out_log, r.sent, stage)
              /\ UNCHANGED stdout_buf
              /\ IF r.raised = NoExc
                   THEN /\ pc' = EndPending(stage)
                        /\ UNCHANGED <<exc, exc_at>>
                   ELSE RaiseStep(stage, r.raised)
         ELSE LET r == IF stdout_mode = "buffered"
                         THEN print(stdout_buf, stdout_fd, stdout_ok, text, end, flush)
                         ELSE print_line_raw(stdout_buf, stdout_fd, stdout_ok, text, end, flush)
              IN
              /\ stdout_buf' = r.buf
              /\ stdout_fd' = r.fd
              /\ out_log' = Logged(out_log, r.sent, stage)
              /\ IF r.raised = NoExc
                   THEN /\ pc' = NextStatement(stage)
                        /\ UNCHANGED <<exc, exc_at>>
                   ELSE RaiseStep(stage, r.raised)
    /\ UNCHANGED <<now, deadline, stderr_fd, envVars, stdout_mode, stdin_errors, inVars,
                   sleep_calls, input_calls, exit_code>>

\* line 4
PrintWorking ==
    /\ pc = "L4"
    /\ PrintStep("L4", WorkingText, WorkingEnd, WorkingFlush)

\* line 6
PrintPrompt ==
    /\ pc = "L6"
    /\ PrintStep("L6", PromptText, PromptEnd, PromptFlush)

\* lines 4 and 6 on a write_through stdout: print writes the end (nothing to
\* write when it is empty); the flush that follows has nothing to send.
PrintEnd ==
    /\ pc \in {EndPending("L4"), EndPending("L6")}
    /\ LET stage == IF pc = EndPending("L4") THEN "L4" ELSE "L6"
           end == IF stage = "L4" THEN WorkingEnd ELSE PromptEnd
           r == write(stdout_fd, stdout_ok, end)
       IN  /\ stdout_fd' = r.fd
           /\ out_log' = Logged(out_log, r.sent, stage)
           /\ IF r.raised = NoExc
                THEN /\ pc' = NextStatement(stage)
                     /\ UNCHANGED <<exc, exc_at>>
                ELSE RaiseStep(stage, r.raised)
    /\ UNCHANGED <<now, deadline, stdout_buf, stderr_fd, envVars, stdout_mode,
                   stdin_errors, inVars, counts, exit_code>>

Init ==
    /\ pc = "L4"
    /\ now = 0
    /\ deadline = 0
    /\ stdout_buf = ""
    /\ stdout_fd = ""
    /\ stdout_ok = TRUE
    /\ stdout_mode \in StdoutModes
    /\ out_log = <<>>
    /\ stderr_fd = <<>>
    /\ stdin_pipe = <<>>
    /\ stdin_closed = FALSE
    /\ stdin_errors \in ErrorHandlers
    /\ stdin_sent = 0
    /\ stdin_text = <<>>
    /\ answer = <<>>
    /\ print_calls = 0
    /\ sleep_calls = 0
    /\ input_calls = 0
    /\ reader = "none"
    /\ reads = 0
    /\ input_result = "none"
    /\ exc = NoExc
    /\ exc_at = "none"
    /\ exit_code = NotExited

\* --------------------------------------------------------------- sleep
\* Variant: the duration taken in clock ticks instead of seconds.
SleepDeadlineTicks(t, secs) == t + secs

\* time.sleep(secs) called at time t returns no earlier than this.
SleepDeadline(t, secs) == t + secs * TicksPerSecond

\* line 5: the call of time.sleep(1)
SleepCall ==
    /\ pc = "L5"
    /\ deadline' = SleepDeadline(now, SleepSeconds)
    /\ sleep_calls' = sleep_calls + 1
    /\ pc' = "L5s"
    /\ UNCHANGED <<now, outVars, stderr_fd, envVars, stdin_errors, stdout_mode, inVars,
                   print_calls, input_calls, exc, exc_at, exit_code>>

\* line 5: time.sleep returns once the time has passed
SleepReturn ==
    /\ pc = "L5s"
    /\ now >= deadline
    /\ pc' = NextStatement("L5")
    /\ UNCHANGED <<now, deadline, outVars, stderr_fd, envVars, stdin_errors, stdout_mode,
                   inVars, counts, exc, exc_at, exit_code>>

\* line 5: the system call under time.sleep fails; time.sleep raises OSError
SleepError ==
    /\ pc = "L5s"
    /\ RaiseStep("L5", "OSError")
    /\ UNCHANGED <<now, deadline, outVars, stderr_fd, envVars, stdin_errors, stdout_mode,
                   inVars, counts, exit_code>>

\* --------------------------------------------------------------- input
\* lines 9-12: raw_input before Python 3, input from Python 3 on
ReadFunction == IF version_major < 3 THEN "raw_input" ELSE "input"

\* The incremental decoder of sys.stdin on one byte.
DecodeByte(b, errors) == IF b = BAD /\ errors = "surrogateescape" THEN SURROGATE ELSE b

\* sys.stdin decodes a chunk as a whole; raw_input (Python 2) returns bytes.
Decodable(chunk, fn, errors) == fn = "raw_input" \/ errors # "strict" \/ BAD \notin Range(chunk)

Decode(chunk, fn, errors) ==
    [i \in 1..Len(chunk) |-> IF fn = "raw_input" THEN chunk[i] ELSE DecodeByte(chunk[i], errors)]

\* Index of the first newline of text, 0 when there is none.
FirstNewline(text) ==
    IF "\n" \in Range(text)
      THEN CHOOSE i \in 1..Len(text) : text[i] = "\n" /\ \A j \in 1..(i-1) : text[j] # "\n"
      ELSE 0

\* lines 10/12: the call.  input flushes stdout first and ignores a failure
\* of that flush, then waits for a line of sys.stdin.
InputCall ==
    /\ pc = "L8"
    /\ reader' = ReadFunction
    /\ input_calls' = input_calls + 1
    /\ IF stdout_buf # "" /\ stdout_ok
         THEN /\ stdout_fd' = stdout_fd \o stdout_buf
              /\ out_log' = Logged(out_log, stdout_buf, "L12")
              /\ stdout_buf' = ""
         ELSE UNCHANGED outVars
    /\ pc' = "L12"
    /\ UNCHANGED <<now, deadline, stderr_fd, envVars, stdin_errors, stdout_mode, stdin_text,
                   answer, reads, input_result, print_calls, sleep_calls,
                   exc, exc_at, exit_code>>

\* Variant: a read that does not block.
ReadReadyNonBlocking(pipe, closed) == TRUE

\* The read of the stdin stream blocks until bytes are there or the stream
\* has ended.
ReadReady(pipe, closed) == pipe # <<>> \/ closed

\* lines 10/12: the blocked read wakes up and takes what there is.
InputRead ==
    /\ pc = "L12"
    /\ ReadReady(stdin_pipe, stdin_closed)
    /\ reads' = reads + 1
    /\ stdin_pipe' = <<>>
    /\ IF stdin_pipe = <<>>
         THEN \* end of stream
              IF stdin_text = <<>>
                THEN /\ input_result' = "eof"
                     /\ RaiseStep("L12", "EOFError")
                     /\ UNCHANGED <<stdin_text, answer>>
                ELSE /\ input_result' = "line"
                     /\ answer' = stdin_text
                     /\ stdin_text' = <<>>
                     /\ pc' = AfterInput(stdin_text)
                     /\ UNCHANGED <<exc, exc_at>>
         ELSE IF ~Decodable(stdin_pipe, reader, stdin_errors)
                THEN /\ input_result' = "error"
                     /\ RaiseStep("L12", "UnicodeDecodeError")
                     /\ UNCHANGED <<stdin_text, answer>>
                ELSE LET text == stdin_text \o Decode(stdin_pipe, reader, stdin_errors)
                         k == FirstNewline(text)
                     IN  IF k = 0
                           THEN /\ stdin_text' = text
                                /\ UNCHANGED <<pc, answer, input_result, exc, exc_at>>
                           ELSE /\ input_result' = "line"
                                /\ answer' = SubSeq(text, 1, k - 1)
                                /\ stdin_text' = SubSeq(text, k + 1, Len(text))
                                /\ pc' = AfterInput(SubSeq(text, 1, k - 1))
                                /\ UNCHANGED <<exc, exc_at>>
    /\ UNCHANGED <<now, deadline, outVars, stderr_fd, stdout_ok, stdin_closed,
                   stdin_sent, stdin_errors, stdout_mode, reader, counts, exit_code>>

\* ---------------------------------------------------------------- exit
\* The exit status of the interpreter: 1 after an uncaught exception, 120
\* when the final flush of stdout fails, 0 otherwise.
ExitStatus(uncaught, flush_failed) ==
    IF flush_failed THEN 120 ELSE IF uncaught THEN 1 ELSE 0

\* The end of the script, or an exception leaving it: the interpreter
\* prints the traceback, flushes stdout and exits.
Exit ==
    /\ pc \in {"end", "raised"}
    /\ LET uncaught == pc = "raised"
           flush_failed == stdout_buf # "" /\ ~stdout_ok
           trace == IF uncaught THEN <<"Traceback", exc>> ELSE <<>>
           ignored == IF flush_failed THEN <<"Exception ignored", "BrokenPipeError">> ELSE <<>>
       IN  /\ stderr_fd' = stderr_fd \o trace \o ignored
           /\ IF stdout_buf # "" /\ stdout_ok
                THEN /\ stdout_fd' = stdout_fd \o stdout_buf
                     /\ out_log' = Logged(out_log, stdout_buf, "exit")
                     /\ stdout_buf' = ""
                ELSE UNCHANGED outVars
           /\ exit_code' = <<ExitStatus(uncaught, flush_failed)>>
    /\ pc' = "done"
    /\ UNCHANGED <<now, deadline, envVars, stdin_errors, stdout_mode, inVars, counts, exc, exc_at>>

\* The steps of the process.
Program ==
    \/ PrintWorking
    \/ SleepCall
    \/ SleepReturn
    \/ SleepError
    \/ PrintPrompt
    \/ PrintEnd
    \/ InputCall
    \/ InputRead
    \/ Exit

\* --------------------------------------------------------- environment
\* The clock advances.
Tick ==
    /\ pc # "done"
    /\ now < MaxClock \/ (pc = "L5s" /\ now < deadline)
    /\ now' = now + 1
    /\ UNCHANGED <<pc, deadline, outVars, stderr_fd, envVars, stdin_errors, stdout_mode,
                   inVars, counts, exc, exc_at, exit_code>>

\* The writer of stdin sends a byte.
StdinSend ==
    /\ pc # "done"
    /\ ~stdin_closed
    /\ stdin_sent < MaxStdin
    /\ \E b \in Bytes : stdin_pipe' = Append(stdin_pipe, b)
    /\ stdin_sent' = stdin_sent + 1
    /\ UNCHANGED <<pc, now, deadline, outVars, stderr_fd, stdout_ok, stdin_closed,
                   stdin_errors, stdout_mode, inVars, counts, exc, exc_at, exit_code>>

\* The writer of stdin closes its end: the stream ends after the bytes sent.
StdinClose ==
    /\ pc # "done"
    /\ ~stdin_closed
    /\ stdin_closed' = TRUE
    /\ UNCHANGED <<pc, now, deadline, outVars, stderr_fd, stdout_ok, stdin_pipe,
                   stdin_sent, stdin_errors, stdout_mode, inVars, counts, exc, exc_at, exit_code>>

\* The reader of stdout goes away: later writes fail.
StdoutBreak ==
    /\ pc # "done"
    /\ stdout_ok
    /\ stdout_ok' = FALSE
    /\ UNCHANGED <<pc, now, deadline, outVars, stderr_fd, stdin_pipe, stdin_closed,
                   stdin_sent, stdin_errors, stdout_mode, inVars, counts, exc, exc_at, exit_code>>

Environment == Tick \/ StdinSend \/ StdinClose \/ StdoutBreak

Next == Program \/ Environment

Spec == Init /\ [][Next]_vars

\* The process is always scheduled and the clock always advances.
LiveSpec == Spec /\ WF_vars(Program) /\ WF_vars(Tick)
\* ------------------------------------------------------------- claims
\* What a complete run writes to stdout.
FullOutput == "Working...\nDo you want to proceed? [y/n] "

\* The writes that carried exactly the prompt.
PromptWrites == {i \in DOMAIN out_log : out_log[i].data = "Do you want to proceed? [y/n] "}

\* The writes to stdout made by the statement at `stage`.
WritesOf(stage) == {i \in DOMAIN out_log : out_log[i].at = stage}

\* C1: whenever the process has called input (it is inside the read of
\* stdin, or past it), "Working..." and the prompt have both reached
\* stdout and nothing is left in the buffer; no input is needed for that.
C1_PromptFlushedBeforeRead ==
    (pc = "L12" \/ input_calls > 0 \/ reads > 0)
        => /\ stdout_fd = FullOutput
           /\ stdout_buf = ""

\* The process blocked in the read, no byte sent and the stream open.
C1_Witness ==
    /\ pc = "L12"
    /\ stdin_sent = 0
    /\ ~stdin_closed
    /\ reads = 0
    /\ stdout_fd = FullOutput

\* C2: the prompt reaches stdout only after the sleep has returned; the
\* sleep is called only after "Working..." has reached stdout with nothing
\* left in the buffer; and while the process sleeps stdout does not change.
C2_PromptAfterSleep ==
    /\ [](/\ PromptWrites # {} => (sleep_calls = 1 /\ pc \notin {"L5", "L5s"} /\ now >= deadline)
          /\ sleep_calls > 0 => stdout_fd \in {"Working...\n", FullOutput}
          /\ pc = "L5s" => (stdout_fd = "Working...\n" /\ stdout_buf = ""))
    /\ [][pc = "L5s" => (stdout_fd' = stdout_fd /\ stdout_buf' = stdout_buf)]_vars

\* The prompt written, after a sleep that the clock had to finish.
C2_Witness ==
    /\ PromptWrites # {}
    /\ \A i \in PromptWrites : out_log[i].t = deadline
    /\ deadline > 0
    /\ pc = "L8"

\* C3: stdout only ever grows from nothing to "Working..." (with its
\* newline, or the newline in a write of its own), and from "Working..." and
\* its newline to that followed by the prompt: the prompt is never on stdout
\* without "Working..." before it, and never arrives together with it.
C3_WorkingBeforePrompt ==
    [][stdout_fd' # stdout_fd =>
          \/ stdout_fd = "" /\ stdout_fd' \in {"Working...", "Working...\n"}
          \/ stdout_fd = "Working..." /\ stdout_fd' = "Working...\n"
          \/ stdout_fd = "Working...\n" /\ stdout_fd' = FullOutput]_vars

\* Both on stdout, the prompt written later than "Working...".
C3_Witness ==
    /\ stdout_fd = FullOutput
    /\ PromptWrites # {}
    /\ \A i \in PromptWrites : out_log[1].t < out_log[i].t

\* C4: when the input call returned a line, and when it met the end of the
\* stream with no data, the script ends normally: exit status 0, nothing on
\* stderr, no exception.
C4_ExitZeroOnLineOrEof ==
    input_result \in {"line", "eof"}
        => /\ pc \in {"end", "done"}
           /\ exc = NoExc
           /\ pc = "done" => (exit_code = <<0>> /\ stderr_fd = <<>>)

\* The process exited after the stream was closed with nothing sent.
C4_Witness ==
    /\ pc = "done"
    /\ input_result = "eof"
    /\ stdin_sent = 0
    /\ exit_code = <<0>>

\* C5: whatever line the input call returned, the process goes on to the
\* end of the script, and exits with status 0, the same stdout and an empty
\* stderr.
C5_AnswerIndependence ==
    \A line \in {<<>>, <<"y">>, <<"n">>, <<"y", "n">>, <<"n", "y">>, <<"y", "y">>, <<"n", "n">>} :
        (input_result = "line" /\ answer = line)
            => /\ pc \in {"end", "done"}
               /\ stdout_fd = FullOutput
               /\ stdout_buf = ""
               /\ pc = "done" => (exit_code = <<0>> /\ stderr_fd = <<>>)

\* The process exited after the answer "n".
C5_Witness ==
    /\ pc = "done"
    /\ input_result = "line"
    /\ answer = <<"n">>
    /\ exit_code = <<0>>

\* C6: a process that exited with status 0 has written to stdout exactly
\* "Working...", a newline and the prompt without a newline; two prints
\* were made, line 4's wrote "Working..." and the newline (in one write, or
\* in two on a write_through stdout) and line 6's then wrote the prompt in
\* one; no other statement wrote, and nothing went to stderr.
C6_ExactOutput ==
    (pc = "done" /\ exit_code = <<0>>)
        => /\ stdout_fd = "Working...\nDo you want to proceed? [y/n] "
           /\ stdout_buf = ""
           /\ print_calls = 2
           /\ WritesOf("L4") \cup WritesOf("L6") = DOMAIN out_log
           /\ \/ /\ WritesOf("L4") = {1}
                 /\ out_log[1].data = "Working...\n"
              \/ /\ WritesOf("L4") = {1, 2}
                 /\ out_log[1].data = "Working..." /\ out_log[2].data = "\n"
           /\ WritesOf("L6") = {Len(out_log)}
           /\ out_log[Len(out_log)].data = "Do you want to proceed? [y/n] "
           /\ stderr_fd = <<>>

\* The process exited with status 0 after a line was read.
C6_Witness ==
    /\ pc = "done"
    /\ exit_code = <<0>>
    /\ input_result = "line"
    /\ answer = <<"y">>

\* C7: every write of line 6 (the prompt) comes at least one second after
\* every write of line 4 ("Working..." and its newline).
C7_OneSecondApart ==
    \A i \in WritesOf("L4") : \A j \in WritesOf("L6") :
        out_log[j].t - out_log[i].t >= 1 * TicksPerSecond

\* The prompt exactly one second after the last write of line 4, which came
\* after the clock started.
C7_Witness ==
    /\ WritesOf("L6") # {}
    /\ \E i \in WritesOf("L4") : \E j \in WritesOf("L6") :
          /\ out_log[i].t > 0
          /\ out_log[j].t - out_log[i].t = TicksPerSecond

\* C8: an exception other than the end of the stream at the input call is
\* never handled: control leaves the script for good, the exit status is not
\* 0, no statement is run again, and after a failed write no later statement
\* has run (no sleep after a failed line 4, no input call after either).
C8_OtherFailuresPropagate ==
    /\ exc # NoExc => pc \in {"raised", "done"}
    /\ (exc # NoExc /\ pc = "done") => (exit_code # <<0>> /\ exit_code # <<>>)
    /\ exc_at = "L4" => (print_calls = 1 /\ sleep_calls = 0 /\ input_calls = 0 /\ reads = 0)
    /\ exc_at = "L5" => (print_calls = 1 /\ sleep_calls = 1 /\ input_calls = 0 /\ reads = 0)
    /\ exc_at = "L6" => (print_calls = 2 /\ sleep_calls = 1 /\ input_calls = 0 /\ reads = 0)
    /\ exc_at = "L12" => (print_calls = 2 /\ sleep_calls = 1 /\ input_calls = 1)
    /\ input_result = "error" => (exc = "UnicodeDecodeError" /\ exc_at = "L12")
    /\ input_result = "eof" => exc = NoExc

\* The process exited on a failure of the read that is not the end of the
\* stream.
C8_Witness ==
    /\ pc = "done"
    /\ exc = "UnicodeDecodeError"
    /\ exc_at = "L12"
    /\ exit_code = <<1>>
\* A whole line is waiting in the stdin pipe.
LineArrived == "\n" \in Range(stdin_pipe)

\* C9 as stated: inside the read, while no line has arrived and the stream
\* is open, the process stays inside the read, writes nothing and does not
\* exit; and it leaves the read only with a line or at the end of stream.
C9_AsStated ==
    /\ [][(pc = "L12" /\ ~LineArrived /\ ~stdin_closed)
            => (pc' = "L12" /\ stdout_fd' = stdout_fd /\ exit_code' = exit_code)]_vars
    /\ [][(pc = "L12" /\ pc' # "L12") => input_result' \in {"line", "eof"}]_vars

\* C9, amended: inside the read the process writes nothing; while no byte
\* is waiting and the stream is open it stays inside the read and does not
\* exit; while no line has arrived and the stream is open it leaves the read
\* only by the uncaught UnicodeDecodeError of bytes sys.stdin cannot decode;
\* and it leaves the read only with a line, at the end of the stream, or by
\* that error.
C9_BlocksUntilInput ==
    /\ [][pc = "L12" => (stdout_fd' = stdout_fd /\ stdout_buf' = stdout_buf)]_vars
    /\ [][(pc = "L12" /\ stdin_pipe = <<>> /\ ~stdin_closed)
            => (pc' = "L12" /\ exit_code' = exit_code /\ reads' = reads)]_vars
    /\ [][(pc = "L12" /\ ~LineArrived /\ ~stdin_closed /\ pc' # "L12")
            => (pc' = "raised" /\ exc' = "UnicodeDecodeError")]_vars
    /\ [][(pc = "L12" /\ pc' # "L12")
            => \/ input_result' \in {"line", "eof"}
               \/ /\ input_result' = "error"
                  /\ exc' = "UnicodeDecodeError"
                  /\ BAD \in Range(stdin_pipe)
                  /\ stdin_errors = "strict"]_vars

\* The process has read the start of a line and is blocked again.
C9_Witness ==
    /\ pc = "L12"
    /\ reads = 1
    /\ stdin_text = <<"y">>
    /\ stdin_pipe = <<>>
    /\ ~stdin_closed

\* The order of the statements, and the ways out of it by an exception.
LinearOrder ==
    {<<"L4", "L5">>, <<"L4", "L4e">>, <<"L4e", "L5">>, <<"L5", "L5s">>,
     <<"L5s", "L6">>, <<"L6", "L8">>, <<"L6", "L6e">>, <<"L6e", "L8">>,
     <<"L8", "L12">>, <<"L12", "end">>, <<"end", "done">>}
RaiseEdges ==
    {<<"L4", "raised">>, <<"L4e", "raised">>, <<"L5s", "raised">>,
     <<"L6", "raised">>, <<"L6e", "raised">>, <<"L12", "raised">>,
     <<"raised", "done">>}

\* C10 as stated, for the runs that have ended: without a failure of a
\* write or of the sleep, and with the input stream closed by its writer,
\* the process has exited with status 0 after one input call.
C10_AsStated ==
    (pc = "done" /\ exc_at \notin {"L4", "L5", "L6"} /\ stdin_closed)
        => (exit_code = <<0>> /\ input_calls = 1)

\* C10, amended: each statement runs at most once and only in source order,
\* the two outcomes of the input call lead to the same end, and a run with
\* no failure of a write, of the sleep or of the read, in which a line
\* arrives or the stream is closed, exits with status 0 after one input
\* call.
C10_LinearAndTerminates ==
    /\ [](print_calls <= 2 /\ sleep_calls <= 1 /\ input_calls <= 1)
    /\ [][pc' # pc => <<pc, pc'>> \in LinearOrder \cup RaiseEdges]_vars
    /\ [](input_result \in {"line", "eof"} => pc \in {"end", "done"})
    /\ ([](exc = NoExc) /\ <>(stdin_closed \/ LineArrived))
          => <>(pc = "done" /\ exit_code = <<0>> /\ input_calls = 1)

\* The process exited after an unfinished line was cut by the end of stream.
C10_Witness ==
    /\ pc = "done"
    /\ exit_code = <<0>>
    /\ input_calls = 1
    /\ reads = 2
    /\ answer = <<"y">>
    /\ stdin_closed
====
